---- MODULE Spec2Model ----
(***************************************************************************)
(* The PredictifyHybrid contract (contracts/predictify-hybrid/src/lib.rs)  *)
(* as a state machine: the persistent store, the ledger clock, and one     *)
(* action per entry point.  A call that panics leaves the store as it was  *)
(* (the host rolls the invocation back) and is recorded in lastCall.       *)
(***************************************************************************)
EXTENDS Integers, Sequences, FiniteSets, TLC

VARIABLES storage, now, seq, lastCall, hist

vars == <<storage, now, seq, lastCall, hist>>

\* ------------------------------------------------------------------ bounds
\* The ledger closes at most MaxTicks times.
MaxTicks == 1
\* Stakes (votes and disputes) one market record accepts.
MaxStakes == 2
\* Addresses that have voted on a market whose voting has ended are among
\* 1..NumVoters.
NumVoters == 5
\* i128 scaled down to I128Bits bits (two's complement), wide enough for the
\* sum of MaxStakes stakes of min_stake.
I128Bits == 29

\* ------------------------------------------------------- program constants
\* let min_stake: i128 = 10_0000000
min_stake == 100000000
\* let dispute_extension = 24 * 60 * 60
dispute_extension == 24 * 60 * 60
\* PythOracle::get_price returns Ok(26_000_00)
get_price == 2600000

\* ------------------------------------------------------------- input sets
Users == {1, 2}
Labels == {"yes", "no", "maybe"}
OutcomeLists == {<<"yes", "no">>}
Questions == {"q"}
EndTimes == {0, dispute_extension}
TimeSteps == {dispute_extension}
Horizon == MaxTicks * dispute_extension
MarketIds == {"m1"}
Keys == {"Admin", "TokenID"} \cup MarketIds

I128Max == 2 ^ (I128Bits - 1) - 1
I128Min == 0 - I128Max - 1

VoteStakes == {0, 1, I128Max}
DisputeStakes == {min_stake - 1, min_stake}

\* What the host and the token decide for one invocation: whether the address
\* asked to authorize did, whether the token accepts the transfer, and whether
\* the build panics on integer overflow.
Env(authorized, funded, overflow_checks) ==
    [authorized |-> authorized, funded |-> funded,
     overflow_checks |-> overflow_checks]
Envs == { Env(TRUE, TRUE, TRUE), Env(TRUE, TRUE, FALSE),
          Env(TRUE, FALSE, TRUE), Env(FALSE, TRUE, TRUE) }

OracleProvider == {"BandProtocol", "DIA", "Reflector", "Pyth"}

OracleConfig(provider, feed_id, threshold, comparison) ==
    [provider |-> provider, feed_id |-> feed_id,
     threshold |-> threshold, comparison |-> comparison]

OracleConfigs ==
    { OracleConfig("Pyth", "BTC/USD", get_price, "gt"),
      OracleConfig("Pyth", "BTC/USD", get_price + 1, "lt"),
      OracleConfig("Pyth", "BTC/USD", get_price, "ne"),
      OracleConfig("DIA", "BTC/USD", get_price, "gt") }

\* ------------------------------------------------------------ store values
None == <<>>
Some(x) == <<x>>

NoValue == [type |-> "none"]
AddressVal(a) == [type |-> "address", addr |-> a]

Market(admin, question, outcomes, end_time, oracle_config) ==
    [type |-> "market",
     admin |-> admin,
     question |-> question,
     outcomes |-> outcomes,
     end_time |-> end_time,
     oracle_config |-> oracle_config,
     oracle_result |-> None,
     votes |-> <<>>,
     total_staked |-> 0,
     dispute_stakes |-> <<>>]

\* Map::set on a map held as a function over its keys.
MapSet(map, k, v) == (k :> v) @@ map

\* What is known of a market record since create_market wrote it.
NewHist == [fetched |-> FALSE, resolved |-> FALSE, disputed |-> FALSE,
            nstakes |-> 0, stake_sum |-> 0]

Call(op, key, result, ret) == [op |-> op, key |-> key, result |-> result, ret |-> ret]

\* A panic: the invocation is rolled back.
Fail(op, key, err) ==
    /\ lastCall' = Call(op, key, err, None)
    /\ UNCHANGED <<storage, now, seq, hist>>

\* persistent().get::<Symbol, Market>(&market_id)
LoadMarket(market_id) ==
    IF storage[market_id].type = "none" THEN "MarketNotFound"
    ELSE IF storage[market_id].type /= "market" THEN "BadValue"
    ELSE "Ok"

\* persistent().get::<Symbol, Address>("TokenID")
LoadToken ==
    IF storage["TokenID"].type = "none" THEN "TokenNotSet"
    ELSE IF storage["TokenID"].type /= "address" THEN "BadValue"
    ELSE "Ok"

\* token_client.transfer(&user, &contract, &stake): the token contract is the
\* one stored under TokenID; it moves the stake or panics.
Transfer(stake, funded) ==
    IF ~funded THEN "TransferFailed" ELSE "Ok"

\* a + b on i128: a panic with overflow checks, two's complement otherwise.
WrapI128(x) ==
    IF x > I128Max THEN ((x - I128Max) - I128Max) - 2
    ELSE IF x < I128Min THEN ((x + I128Max) + I128Max) + 2
    ELSE x

Overflows(x) == x > I128Max \/ x < I128Min

\* ---------------------------------------------------------------- actions
\* The store of a freshly deployed contract.
EmptyStore == [k \in Keys |-> NoValue]

\* The deployed contract.
InitEmpty ==
    /\ storage = EmptyStore
    /\ now = 0
    /\ seq = 0
    /\ lastCall = Call("none", "Admin", "Ok", None)
    /\ hist = [k \in Keys |-> NewHist]

\* The address of the token contract as the deployment stores it under TokenID
\* (no entry point of the contract writes that key).
ConfiguredToken == AddressVal(0)

\* The deployed contract after initialize has run, with the token contract
\* configured or not.
Init ==
    \E tok \in {NoValue, ConfiguredToken} :
        /\ storage = [EmptyStore EXCEPT !["Admin"] = AddressVal(1),
                                        !["TokenID"] = tok]
        /\ now = 0
        /\ seq = 0
        /\ lastCall = Call("none", "Admin", "Ok", None)
        /\ hist = [k \in Keys |-> NewHist]

\* The ledger closes: the timestamp advances, the sequence number counts.
Tick(d, horizon) ==
    /\ now + d <= horizon
    /\ now' = now + d
    /\ seq' = seq + 1
    /\ UNCHANGED <<storage, lastCall, hist>>

initialize(admin) ==
    /\ storage' = [storage EXCEPT !["Admin"] = AddressVal(admin)]
    /\ lastCall' = Call("initialize", "Admin", "Ok", None)
    /\ UNCHANGED <<now, seq, hist>>

create_market(admin, market_id, question, outcomes, end_time, oracle_config, authorized) ==
    IF ~authorized THEN Fail("create_market", market_id, "AuthFailed")
    ELSE
        /\ storage' = [storage EXCEPT ![market_id] =
                          Market(admin, question, outcomes, end_time, oracle_config)]
        /\ hist' = [hist EXCEPT ![market_id] = NewHist]
        /\ lastCall' = Call("create_market", market_id, "Ok", None)
        /\ UNCHANGED <<now, seq>>

\* vote_check with the market still open at its end time (> for >=).
vote_check_open_at_end(user, market_id, outcome, stake, authorized, funded) ==
    IF ~authorized THEN "AuthFailed"
    ELSE IF LoadMarket(market_id) /= "Ok" THEN LoadMarket(market_id)
    ELSE IF now > storage[market_id].end_time THEN "MarketClosed"
    ELSE IF ~(\E i \in DOMAIN storage[market_id].outcomes :
                 storage[market_id].outcomes[i] = outcome) THEN "InvalidOutcome"
    ELSE IF LoadToken /= "Ok" THEN LoadToken
    ELSE Transfer(stake, funded)

\* vote: the checks in the order the code makes them; "Ok" when all pass.
vote_check(user, market_id, outcome, stake, authorized, funded) ==
    IF ~authorized THEN "AuthFailed"
    ELSE IF LoadMarket(market_id) /= "Ok" THEN LoadMarket(market_id)
    ELSE IF now >= storage[market_id].end_time THEN "MarketClosed"
    ELSE IF ~(\E i \in DOMAIN storage[market_id].outcomes :
                 storage[market_id].outcomes[i] = outcome) THEN "InvalidOutcome"
    ELSE IF LoadToken /= "Ok" THEN LoadToken
    ELSE Transfer(stake, funded)

\* market.votes.set(user, outcome); market.total_staked += stake
vote_update(market, user, outcome, stake) ==
    [market EXCEPT !.votes = MapSet(market.votes, user, outcome),
                   !.total_staked = WrapI128(market.total_staked + stake)]

\* vote with the vote stored although the transfer was rejected.
vote_stored_before_transfer(user, market_id, outcome, stake, authorized, funded, overflow_checks) ==
    LET err == vote_check(user, market_id, outcome, stake, authorized, funded)
        market == storage[market_id]
    IN  IF err = "TransferFailed"
        THEN /\ storage' = [storage EXCEPT ![market_id] =
                               vote_update(market, user, outcome, stake)]
             /\ lastCall' = Call("vote", market_id, err, None)
             /\ UNCHANGED <<now, seq, hist>>
        ELSE IF err /= "Ok" THEN Fail("vote", market_id, err)
        ELSE IF overflow_checks /\ Overflows(market.total_staked + stake)
        THEN Fail("vote", market_id, "Overflow")
        ELSE
            /\ hist[market_id].nstakes < MaxStakes
            /\ storage' = [storage EXCEPT ![market_id] =
                              vote_update(market, user, outcome, stake)]
            /\ hist' = [hist EXCEPT ![market_id].nstakes = @ + 1,
                                    ![market_id].stake_sum = @ + stake]
            /\ lastCall' = Call("vote", market_id, "Ok", None)
            /\ UNCHANGED <<now, seq>>

vote(user, market_id, outcome, stake, authorized, funded, overflow_checks) ==
    LET err == vote_check(user, market_id, outcome, stake, authorized, funded)
        market == storage[market_id]
    IN  IF err /= "Ok" THEN Fail("vote", market_id, err)
        ELSE IF overflow_checks /\ Overflows(market.total_staked + stake)
        THEN Fail("vote", market_id, "Overflow")
        ELSE
            /\ hist[market_id].nstakes < MaxStakes
            /\ storage' = [storage EXCEPT ![market_id] =
                              vote_update(market, user, outcome, stake)]
            /\ hist' = [hist EXCEPT ![market_id].nstakes = @ + 1,
                                    ![market_id].stake_sum = @ + stake]
            /\ lastCall' = Call("vote", market_id, "Ok", None)
            /\ UNCHANGED <<now, seq>>

\* fetch_check without the check that oracle_result is unset.
fetch_check_refetch(market_id) ==
    IF LoadMarket(market_id) /= "Ok" THEN LoadMarket(market_id)
    ELSE IF now < storage[market_id].end_time THEN "MarketClosed"
    ELSE IF storage[market_id].oracle_config.provider /= "Pyth"
    THEN "InvalidOracleConfig"
    ELSE IF storage[market_id].oracle_config.comparison \notin {"gt", "lt", "eq"}
    THEN "InvalidOracleConfig"
    ELSE "Ok"

\* fetch_oracle_result: the checks before the price is compared.
fetch_check(market_id) ==
    IF LoadMarket(market_id) /= "Ok" THEN LoadMarket(market_id)
    ELSE IF storage[market_id].oracle_result /= None THEN "MarketAlreadyResolved"
    ELSE IF now < storage[market_id].end_time THEN "MarketClosed"
    ELSE IF storage[market_id].oracle_config.provider /= "Pyth"
    THEN "InvalidOracleConfig"
    ELSE IF storage[market_id].oracle_config.comparison \notin {"gt", "lt", "eq"}
    THEN "InvalidOracleConfig"
    ELSE "Ok"

\* fetch_outcome with "gt" read as >=.
fetch_outcome_gt_inclusive(oracle_config, price) ==
    IF oracle_config.comparison = "gt"
    THEN (IF price >= oracle_config.threshold THEN "yes" ELSE "no")
    ELSE IF oracle_config.comparison = "lt"
    THEN (IF price < oracle_config.threshold THEN "yes" ELSE "no")
    ELSE (IF price = oracle_config.threshold THEN "yes" ELSE "no")

\* The outcome of comparing the price with the threshold.
fetch_outcome(oracle_config, price) ==
    IF oracle_config.comparison = "gt"
    THEN (IF price > oracle_config.threshold THEN "yes" ELSE "no")
    ELSE IF oracle_config.comparison = "lt"
    THEN (IF price < oracle_config.threshold THEN "yes" ELSE "no")
    ELSE (IF price = oracle_config.threshold THEN "yes" ELSE "no")

fetch_oracle_result(market_id) ==
    LET err == fetch_check(market_id)
        market == storage[market_id]
        outcome == fetch_outcome(market.oracle_config, get_price)
    IN  IF err /= "Ok" THEN Fail("fetch_oracle_result", market_id, err)
        ELSE
            /\ storage' = [storage EXCEPT ![market_id].oracle_result = Some(outcome)]
            /\ hist' = [hist EXCEPT ![market_id].fetched = TRUE]
            /\ lastCall' = Call("fetch_oracle_result", market_id, "Ok", Some(outcome))
            /\ UNCHANGED <<now, seq>>

\* dispute_check with the minimum one unit too low.
dispute_check_low_minimum(user, market_id, stake, authorized, funded) ==
    IF ~authorized THEN "AuthFailed"
    ELSE IF LoadMarket(market_id) /= "Ok" THEN LoadMarket(market_id)
    ELSE IF now < storage[market_id].end_time THEN "DisputeTooEarly"
    ELSE IF stake < min_stake - 1 THEN "InsufficientStake"
    ELSE IF LoadToken /= "Ok" THEN LoadToken
    ELSE Transfer(stake, funded)

\* dispute_result: the checks in the order the code makes them.
dispute_check(user, market_id, stake, authorized, funded) ==
    IF ~authorized THEN "AuthFailed"
    ELSE IF LoadMarket(market_id) /= "Ok" THEN LoadMarket(market_id)
    ELSE IF now < storage[market_id].end_time THEN "DisputeTooEarly"
    ELSE IF stake < min_stake THEN "InsufficientStake"
    ELSE IF LoadToken /= "Ok" THEN LoadToken
    ELSE Transfer(stake, funded)

\* The stake a dispute records for the user: create-or-add.
dispute_stake(dispute_stakes, user, stake) ==
    IF user \in DOMAIN dispute_stakes THEN dispute_stakes[user] + stake ELSE stake

\* dispute_end_time with the extension counted from the end time.
dispute_end_time_from_end(end_time, current_time) ==
    IF end_time < current_time + dispute_extension
    THEN end_time + dispute_extension
    ELSE end_time

\* The end time after a dispute at current_time.
dispute_end_time(end_time, current_time) ==
    IF end_time < current_time + dispute_extension
    THEN current_time + dispute_extension
    ELSE end_time

dispute_result(user, market_id, stake, authorized, funded, overflow_checks) ==
    LET err == dispute_check(user, market_id, stake, authorized, funded)
        market == storage[market_id]
        total == dispute_stake(market.dispute_stakes, user, stake)
    IN  IF err /= "Ok" THEN Fail("dispute_result", market_id, err)
        ELSE IF overflow_checks /\ Overflows(total)
        THEN Fail("dispute_result", market_id, "Overflow")
        ELSE
            /\ hist[market_id].nstakes < MaxStakes
            /\ storage' = [storage EXCEPT ![market_id] =
                  [market EXCEPT
                      !.dispute_stakes = MapSet(market.dispute_stakes, user, WrapI128(total)),
                      !.end_time = dispute_end_time(market.end_time, now)]]
            /\ hist' = [hist EXCEPT ![market_id].nstakes = @ + 1,
                                    ![market_id].disputed = TRUE]
            /\ lastCall' = Call("dispute_result", market_id, "Ok", None)
            /\ UNCHANGED <<now, seq>>

\* ------------------------------------------------------------- resolution
\* Map<String, u32> iterates in key order.
LabelOrder == <<"maybe", "no", "yes">>

\* vote_counts: the number of votes for each outcome that has one.
VoteCounts(votes) ==
    [o \in {votes[u] : u \in DOMAIN votes} |->
        Cardinality({u \in DOMAIN votes : votes[u] = o})]

KeyOrder(vote_counts) == SelectSeq(LabelOrder, LAMBDA o : o \in DOMAIN vote_counts)

\* The scan for the outcome with the most votes.
RECURSIVE Scan(_, _, _, _)
Scan(vote_counts, order, community_result, max_votes) ==
    IF order = <<>>
    THEN [community_result |-> community_result, max_votes |-> max_votes]
    ELSE IF vote_counts[Head(order)] > max_votes
    THEN Scan(vote_counts, Tail(order), Head(order), vote_counts[Head(order)])
    ELSE Scan(vote_counts, Tail(order), community_result, max_votes)

\* vote_counts.values().fold(0, |acc, count| acc + count)
RECURSIVE TotalVotes(_, _)
TotalVotes(vote_counts, order) ==
    IF order = <<>> THEN 0
    ELSE vote_counts[Head(order)] + TotalVotes(vote_counts, Tail(order))

\* random_value from the timestamp alone.
random_value_of_timestamp(timestamp, sequence) == timestamp % 100

random_value(timestamp, sequence) == (timestamp + sequence) % 100

\* qualified without the floor of 5 votes.
qualified_without_floor(max_votes, total_votes) ==
    max_votes * 100 > total_votes * 50

\* qualified without the majority test.
qualified_floor_only(max_votes, total_votes) == total_votes >= 5

\* Whether the community result has enough weight to be drawn.
qualified(max_votes, total_votes) ==
    max_votes * 100 > total_votes * 50 /\ total_votes >= 5

\* The final result when vote_counts iterates in the given order.
final_result_in_order(votes, oracle_result, timestamp, sequence, order) ==
    LET vote_counts == VoteCounts(votes)
        scan == Scan(vote_counts, order, oracle_result, 0)
        total_votes == TotalVotes(vote_counts, order)
    IN  IF oracle_result = scan.community_result THEN oracle_result
        ELSE IF total_votes = 0 THEN oracle_result
        ELSE IF qualified(scan.max_votes, total_votes)
        THEN (IF random_value(timestamp, sequence) < 30
              THEN scan.community_result ELSE oracle_result)
        ELSE oracle_result

final_result(votes, oracle_result, timestamp, sequence) ==
    final_result_in_order(votes, oracle_result, timestamp, sequence,
                          KeyOrder(VoteCounts(votes)))

\* resolve_check with the oracle result looked at before the end time.
resolve_check_oracle_first(market_id) ==
    IF LoadMarket(market_id) /= "Ok" THEN LoadMarket(market_id)
    ELSE IF storage[market_id].oracle_result = None THEN "OracleUnavailable"
    ELSE IF now < storage[market_id].end_time THEN "MarketClosed"
    ELSE "Ok"

\* resolve_market: the checks in the order the code makes them.
resolve_check(market_id) ==
    IF LoadMarket(market_id) /= "Ok" THEN LoadMarket(market_id)
    ELSE IF now < storage[market_id].end_time THEN "MarketClosed"
    ELSE IF storage[market_id].oracle_result = None THEN "OracleUnavailable"
    ELSE "Ok"

resolve_market(market_id) ==
    LET err == resolve_check(market_id)
        market == storage[market_id]
        result == final_result(market.votes, market.oracle_result[1], now, seq)
    IN  IF err /= "Ok" THEN Fail("resolve_market", market_id, err)
        ELSE
            /\ storage' = [storage EXCEPT ![market_id].oracle_result = Some(result)]
            /\ hist' = [hist EXCEPT ![market_id].resolved = TRUE]
            /\ lastCall' = Call("resolve_market", market_id, "Ok", Some(result))
            /\ UNCHANGED <<now, seq>>

Next ==
    \/ \E d \in TimeSteps : Tick(d, Horizon)
    \/ \E a \in {1} : initialize(a)
    \/ \E a \in {1}, k \in MarketIds, q \in Questions, o \in OutcomeLists,
          e \in EndTimes, c \in OracleConfigs, auth \in BOOLEAN :
            create_market(a, k, q, o, e, c, auth)
    \/ \E u \in Users, k \in MarketIds, o \in Labels, s \in VoteStakes,
          env \in Envs :
            vote(u, k, o, s, env.authorized, env.funded, env.overflow_checks)
    \/ \E k \in MarketIds : fetch_oracle_result(k)
    \/ \E u \in Users, k \in MarketIds, s \in DisputeStakes,
          env \in Envs :
            dispute_result(u, k, s, env.authorized, env.funded, env.overflow_checks)
    \/ \E k \in MarketIds : resolve_market(k)

Spec == Init /\ [][Next]_vars

SpecEmpty == InitEmpty /\ [][Next]_vars

\* ------------------------------------------ resolution of a closed market
\* A market whose voting has just ended: created with end_time =
\* dispute_extension, voted on by any of the voters (one unit staked per vote),
\* the ledger at the end time, the oracle not yet fetched.
Voters == 1..NumVoters
TallyOutcomes == <<"yes", "no", "maybe">>
VoteMaps == UNION { [S -> {"yes", "no", "maybe"}] : S \in SUBSET Voters }
StartSeqs == {29, 99}

InitResolve ==
    \E votes \in VoteMaps, c \in OracleConfigs, q \in StartSeqs :
        /\ c.provider = "Pyth" /\ c.comparison \in {"gt", "lt"}
        /\ storage = [EmptyStore EXCEPT
              !["Admin"] = AddressVal(1),
              !["TokenID"] = ConfiguredToken,
              !["m1"] = [Market(1, "q", TallyOutcomes, dispute_extension, c) EXCEPT
                            !.votes = votes,
                            !.total_staked = Cardinality(DOMAIN votes)]]
        /\ now = dispute_extension
        /\ seq = q
        /\ lastCall = Call("none", "Admin", "Ok", None)
        /\ hist = [k \in Keys |->
                     IF k = "m1"
                     THEN [NewHist EXCEPT !.nstakes = Cardinality(DOMAIN votes),
                                          !.stake_sum = Cardinality(DOMAIN votes)]
                     ELSE NewHist]

NextResolve ==
    \/ \E d \in TimeSteps : Tick(d, dispute_extension + Horizon)
    \/ \E k \in MarketIds : fetch_oracle_result(k)
    \/ \E k \in MarketIds : resolve_market(k)

SpecResolve == InitResolve /\ [][NextResolve]_vars

\* ------------------------------------------- the oracle of a closed market
\* A market without votes under every oracle configuration: each provider,
\* each comparison string (one of them not an operator), thresholds below, at
\* and above the price the oracle returns.
Comparisons == {"gt", "lt", "eq", "ne"}
Thresholds == {get_price - 1, get_price, get_price + 1}
FetchConfigs ==
    { OracleConfig(p, "BTC/USD", t, cmp) :
        p \in OracleProvider, t \in Thresholds, cmp \in Comparisons }
FetchOutcomeLists == {<<"yes", "no">>, <<"up", "down">>}

InitFetch ==
    \E c \in FetchConfigs, o \in FetchOutcomeLists, e \in EndTimes :
        /\ storage = [EmptyStore EXCEPT
              !["Admin"] = AddressVal(1),
              !["TokenID"] = ConfiguredToken,
              !["m1"] = Market(1, "q", o, e, c)]
        /\ now = 0
        /\ seq = 0
        /\ lastCall = Call("none", "Admin", "Ok", None)
        /\ hist = [k \in Keys |-> NewHist]

NextFetch ==
    \/ \E d \in TimeSteps : Tick(d, Horizon)
    \/ \E k \in MarketIds : fetch_oracle_result(k)
    \/ \E k \in MarketIds : resolve_market(k)

SpecFetch == InitFetch /\ [][NextFetch]_vars

\* --------------------------------------------------- disputes of any size
\* The contract with dispute stakes up to the largest i128.
LargeDisputeStakes == {min_stake, I128Max}

NextDispute ==
    \/ \E d \in TimeSteps : Tick(d, Horizon)
    \/ \E a \in {1} : initialize(a)
    \/ \E a \in {1}, k \in MarketIds, q \in Questions, o \in OutcomeLists,
          e \in EndTimes, c \in OracleConfigs, auth \in BOOLEAN :
            create_market(a, k, q, o, e, c, auth)
    \/ \E u \in Users, k \in MarketIds, o \in Labels, s \in VoteStakes,
          env \in Envs :
            vote(u, k, o, s, env.authorized, env.funded, env.overflow_checks)
    \/ \E k \in MarketIds : fetch_oracle_result(k)
    \/ \E u \in Users, k \in MarketIds, s \in LargeDisputeStakes,
          env \in Envs :
            dispute_result(u, k, s, env.authorized, env.funded, env.overflow_checks)
    \/ \E k \in MarketIds : resolve_market(k)

SpecDispute == Init /\ [][NextDispute]_vars

\* ------------------------------------------------ any Symbol as market_id
\* market_id is a Symbol the caller chooses and the store is keyed by it
\* directly, as it is by Symbol::new(&env, "Admin") and
\* Symbol::new(&env, "TokenID"): the calls below take their market_id from all
\* the keys, on the freshly deployed contract.
KeyEndTimes == {0}
KeyConfigs == {OracleConfig("Pyth", "BTC/USD", get_price, "gt")}
KeyEnvs == {Env(TRUE, TRUE, TRUE), Env(FALSE, TRUE, TRUE)}

NextKeys ==
    \/ \E d \in TimeSteps : Tick(d, Horizon)
    \/ \E a \in Users : initialize(a)
    \/ \E a \in Users, k \in Keys, q \in Questions, o \in OutcomeLists,
          e \in KeyEndTimes, c \in KeyConfigs, auth \in BOOLEAN :
            create_market(a, k, q, o, e, c, auth)
    \/ \E u \in Users, k \in Keys, o \in Labels, s \in VoteStakes,
          env \in KeyEnvs :
            vote(u, k, o, s, env.authorized, env.funded, env.overflow_checks)
    \/ \E k \in Keys : fetch_oracle_result(k)
    \/ \E u \in Users, k \in Keys, s \in DisputeStakes, env \in KeyEnvs :
            dispute_result(u, k, s, env.authorized, env.funded, env.overflow_checks)
    \/ \E k \in Keys : resolve_market(k)

SpecKeys == InitEmpty /\ [][NextKeys]_vars

\* The entry points that call require_auth (on admin, on user) before anything
\* else; initialize, fetch_oracle_result and resolve_market do not call it.
require_auth == {"create_market", "vote", "dispute_result"}

\* ------------------------------------------------------------------ claims
IsMarket(k) == storage[k].type = "market"

\* The step is a call of op on key k (a call leaves the ledger as it is and
\* records itself).
Called(op, k) == lastCall'.op = op /\ lastCall'.key = k /\ seq' = seq /\ now' = now

\* C1: on an existing market, a vote by an authorized participant at a current
\* time >= end_time fails with MarketClosed, whatever the outcome and the stake,
\* and leaves the store as it was.
C1_VoteAfterEndIsClosed ==
    \A k \in MarketIds :
        (IsMarket(k) /\ now >= storage[k].end_time)
        => \A u \in Users, o \in Labels, s \in VoteStakes, env \in Envs :
             env.authorized
             => ~ENABLED (/\ vote(u, k, o, s, env.authorized, env.funded,
                                  env.overflow_checks)
                         /\ ~(/\ lastCall'.result = "MarketClosed"
                              /\ storage' = storage))

C1_Witness ==
    /\ lastCall = Call("vote", "m1", "MarketClosed", None)
    /\ IsMarket("m1")
    /\ now >= storage["m1"].end_time
    /\ storage["m1"].oracle_result = None

\* C2: once fetch_oracle_result has succeeded on a market record, every later
\* fetch_oracle_result on it fails with MarketAlreadyResolved and leaves the
\* store as it was, whatever votes, disputes and resolutions came in between.
C2_SecondFetchFails ==
    [][\A k \in MarketIds :
        (Called("fetch_oracle_result", k) /\ hist[k].fetched)
        => (lastCall'.result = "MarketAlreadyResolved" /\ storage' = storage)]_vars

C2_Witness ==
    /\ lastCall = Call("fetch_oracle_result", "m1", "MarketAlreadyResolved", None)
    /\ hist["m1"].fetched
    /\ hist["m1"].resolved
    /\ hist["m1"].disputed

\* C3: after the first successful resolve_market on a market record, no step
\* changes its oracle_result.
C3_ResultFinalOnceResolved ==
    [][\A k \in MarketIds :
        (hist[k].resolved /\ IsMarket(k) /\ hist'[k].resolved)
        => storage'[k].oracle_result = storage[k].oracle_result]_vars

\* C4: the end_time stored under a market identifier never decreases.
C4_EndTimeNeverDecreases ==
    [][\A k \in MarketIds :
        (IsMarket(k) /\ storage'[k].type = "market")
        => storage'[k].end_time >= storage[k].end_time]_vars

\* C5: once a fetch_oracle_result, dispute_result or resolve_market has
\* succeeded on a market record, no later vote on it succeeds.
C5_NoVoteOnceClosed ==
    [][\A k \in MarketIds :
        (hist[k].fetched \/ hist[k].disputed \/ hist[k].resolved)
        => ~(Called("vote", k) /\ lastCall'.result = "Ok")]_vars

\* The number of votes for outcome o.
Tally(votes, o) == Cardinality({u \in DOMAIN votes : votes[u] = o})

\* The outcomes with strictly more votes than every other outcome.
Leaders(votes) ==
    {o \in Labels : \A p \in Labels \ {o} : Tally(votes, o) > Tally(votes, p)}

\* The outcome C6 states for a resolution at timestamp t and sequence number q.
Blend(votes, signal, t, q) ==
    LET n == Cardinality(DOMAIN votes)
        wins == {o \in Leaders(votes) :
                    /\ o /= signal
                    /\ n >= 5
                    /\ Tally(votes, o) * 100 > n * 50
                    /\ (t + q) % 100 < 30}
    IN  IF wins = {} THEN signal ELSE CHOOSE o \in wins : TRUE

\* C6: a successful resolve_market returns and stores the outcome with the
\* strictly largest vote count if and only if it differs from the stored signal
\* result, at least 5 votes are recorded, max_votes * 100 > total_votes * 50 and
\* (timestamp + sequence) mod 100 < 30; otherwise the stored signal result.
C6_ResolveBlends ==
    [][\A k \in MarketIds :
        (Called("resolve_market", k) /\ lastCall'.result = "Ok")
        => LET final == Blend(storage[k].votes, storage[k].oracle_result[1], now, seq)
           IN  /\ lastCall'.ret = Some(final)
               /\ storage'[k].oracle_result = Some(final)]_vars

C6_Witness ==
    /\ lastCall = Call("resolve_market", "m1", "Ok", Some("yes"))
    /\ storage["m1"].oracle_config.comparison = "gt"
    /\ ~hist["m1"].disputed
    /\ Tally(storage["m1"].votes, "yes") = 3
    /\ Tally(storage["m1"].votes, "no") = 2

\* C7: with fewer than 5 recorded votes, a successful resolve_market returns
\* the signal result stored before the call, at every timestamp and sequence
\* number.
C7_FewVotesKeepSignal ==
    [][\A k \in MarketIds :
        (/\ Called("resolve_market", k)
         /\ lastCall'.result = "Ok"
         /\ Cardinality(DOMAIN storage[k].votes) < 5)
        => (/\ lastCall'.ret = storage[k].oracle_result
            /\ storage'[k].oracle_result = storage[k].oracle_result)]_vars

C7_Witness ==
    /\ lastCall = Call("resolve_market", "m1", "Ok", Some("no"))
    /\ Tally(storage["m1"].votes, "yes") = 4
    /\ Cardinality(DOMAIN storage["m1"].votes) = 4
    /\ random_value(now, seq) < 30

\* C8, as stated: on an existing market, an authorized dispute_result with a
\* stake below min_stake fails with InsufficientStake at every current time
\* and leaves dispute_stakes as they were.
C8_LowStakeIsInsufficient ==
    [][\A k \in MarketIds :
        (/\ Called("dispute_result", k)
         /\ IsMarket(k)
         /\ ~(/\ lastCall'.result = "InsufficientStake"
              /\ storage'[k].dispute_stakes = storage[k].dispute_stakes))
        => ~\E u \in Users, s \in DisputeStakes, env \in Envs :
              /\ s < min_stake
              /\ env.authorized
              /\ dispute_result(u, k, s, env.authorized, env.funded,
                                env.overflow_checks)]_vars

\* C8, amended: such a call always fails and leaves dispute_stakes as they
\* were; it fails with InsufficientStake when the current time is >= end_time,
\* and with the too-early panic when the current time is < end_time.
C8_LowStakeFails ==
    [][\A k \in MarketIds :
        (/\ Called("dispute_result", k)
         /\ IsMarket(k)
         /\ ~(/\ lastCall'.result =
                    (IF now < storage[k].end_time
                     THEN "DisputeTooEarly" ELSE "InsufficientStake")
              /\ storage'[k].dispute_stakes = storage[k].dispute_stakes))
        => ~\E u \in Users, s \in DisputeStakes, env \in Envs :
              /\ s < min_stake
              /\ env.authorized
              /\ dispute_result(u, k, s, env.authorized, env.funded,
                                env.overflow_checks)]_vars

C8_Witness ==
    /\ lastCall = Call("dispute_result", "m1", "InsufficientStake", None)
    /\ IsMarket("m1")
    /\ storage["m1"].dispute_stakes /= <<>>

\* C9: total_staked is the exact sum of the stakes of the successful votes on
\* the market record; an addition that overflows fails and does not wrap.
C9_TotalIsSumOfStakes ==
    \A k \in MarketIds :
        IsMarket(k) => storage[k].total_staked = hist[k].stake_sum

\* C10: a call that fails leaves the whole store as it was.
C10_FailureChangesNothing ==
    [][lastCall'.result /= "Ok" => storage' = storage]_vars

C10_Witness ==
    /\ lastCall = Call("vote", "m1", "TransferFailed", None)
    /\ storage["m1"].votes /= <<>>

\* C11: the store changes only in a call that some address authorized, and a
\* create_market succeeds only for the admin that initialize stored.
C11_WritesAreAuthorized ==
    [][/\ storage' /= storage => lastCall'.op \in require_auth
       /\ \A k \in Keys :
            (Called("create_market", k) /\ lastCall'.result = "Ok")
            => storage["Admin"] = AddressVal(storage'[k].admin)]_vars

\* The label C12 states for a comparison of value with the threshold.
Compared(comparison, value, threshold) ==
    IF \/ comparison = "gt" /\ value > threshold
       \/ comparison = "lt" /\ value < threshold
       \/ comparison = "eq" /\ value = threshold
    THEN "yes" ELSE "no"

\* C12: a fetch_oracle_result on an unfetched market past its end_time stores
\* and returns "yes" exactly when the price compares to the threshold as the
\* operator gt, lt or eq says, and "no" otherwise; with any other comparison
\* string or a provider other than Pyth it fails with InvalidOracleConfig and
\* oracle_result stays None.
C12_FetchCompares ==
    [][\A k \in MarketIds :
        (/\ Called("fetch_oracle_result", k)
         /\ IsMarket(k)
         /\ storage[k].oracle_result = None
         /\ now >= storage[k].end_time)
        => LET c == storage[k].oracle_config
               label == Compared(c.comparison, get_price, c.threshold)
           IN  IF c.provider = "Pyth" /\ c.comparison \in {"gt", "lt", "eq"}
               THEN /\ lastCall'.result = "Ok"
                    /\ lastCall'.ret = Some(label)
                    /\ storage'[k].oracle_result = Some(label)
               ELSE /\ lastCall'.result = "InvalidOracleConfig"
                    /\ storage'[k].oracle_result = None]_vars

C12_Witness ==
    /\ lastCall = Call("fetch_oracle_result", "m1", "Ok", Some("no"))
    /\ storage["m1"].oracle_config.comparison = "gt"
    /\ storage["m1"].oracle_config.threshold = get_price
    /\ storage["m1"].oracle_result = Some("no")

\* C13: a resolve_market on an existing market fails with MarketClosed when the
\* current time is < end_time (also after a dispute has moved end_time),
\* otherwise with OracleUnavailable when oracle_result is unset, and otherwise
\* succeeds; so every success is at a time >= end_time and after a successful
\* fetch_oracle_result on the record.
C13_ResolvePreconditions ==
    [][\A k \in MarketIds :
        (Called("resolve_market", k) /\ IsMarket(k))
        => /\ lastCall'.result =
                (IF now < storage[k].end_time THEN "MarketClosed"
                 ELSE IF storage[k].oracle_result = None THEN "OracleUnavailable"
                 ELSE "Ok")
           /\ lastCall'.result = "Ok"
                => (now >= storage[k].end_time /\ hist[k].fetched)
           /\ lastCall'.result /= "Ok" => storage' = storage]_vars

C13_Witness ==
    /\ lastCall = Call("resolve_market", "m1", "MarketClosed", None)
    /\ hist["m1"].fetched
    /\ hist["m1"].disputed
    /\ storage["m1"].oracle_result /= None
    /\ now < storage["m1"].end_time

\* The larger of two times.
Max(a, b) == IF a >= b THEN a ELSE b

\* C14: a successful dispute_result at current time t sets end_time to
\* max(previous end_time, t + 86400), so it never moves end_time back.
C14_DisputeExtendsEndTime ==
    [][\A k \in MarketIds :
        (Called("dispute_result", k) /\ lastCall'.result = "Ok")
        => /\ storage'[k].end_time = Max(storage[k].end_time, now + 86400)
           /\ storage'[k].end_time >= storage[k].end_time]_vars

C14_Witness ==
    /\ lastCall = Call("dispute_result", "m1", "Ok", None)
    /\ now = dispute_extension
    /\ storage["m1"].end_time = now + 86400
    /\ Cardinality(DOMAIN storage["m1"].dispute_stakes) = 1

\* C15: total_staked and every entry of dispute_stakes are >= 0 in every state,
\* and every vote or dispute_result that succeeds brought a stake > 0.
C15_StakesArePositive ==
    [][\A k \in MarketIds :
        /\ storage'[k].type = "market"
            => /\ storage'[k].total_staked >= 0
               /\ \A u \in DOMAIN storage'[k].dispute_stakes :
                     storage'[k].dispute_stakes[u] >= 0
        /\ (Called("vote", k) /\ lastCall'.result = "Ok")
            => hist'[k].stake_sum > hist[k].stake_sum
        /\ (Called("dispute_result", k) /\ lastCall'.result = "Ok")
            => \E u \in DOMAIN storage'[k].dispute_stakes :
                  storage'[k].dispute_stakes[u] >
                      (IF u \in DOMAIN storage[k].dispute_stakes
                       THEN storage[k].dispute_stakes[u] ELSE 0)]_vars

\* The labels a market declares.
Declared(market) == {market.outcomes[i] : i \in DOMAIN market.outcomes}

\* C16: every label stored in votes, and the label stored in oracle_result
\* when it is set, is one of the market's declared outcomes.
C16_LabelsAreOutcomes ==
    \A k \in MarketIds :
        IsMarket(k)
        => /\ \A u \in DOMAIN storage[k].votes :
                 storage[k].votes[u] \in Declared(storage[k])
           /\ storage[k].oracle_result /= None
                 => storage[k].oracle_result[1] \in Declared(storage[k])

\* C17: create_market, vote, fetch_oracle_result, dispute_result and
\* resolve_market, with whatever market identifier, leave the values stored
\* under "Admin" and "TokenID" as they were.
C17_MarketOpsKeepWellKnownKeys ==
    [][\A k \in Keys :
        (/\ lastCall'.op /= "initialize"
         /\ Called(lastCall'.op, k))
        => /\ storage'["Admin"] = storage["Admin"]
           /\ storage'["TokenID"] = storage["TokenID"]]_vars

\* Two or more labels share the largest vote count.
Tied(votes) ==
    \E o \in Labels, p \in Labels :
        /\ o /= p
        /\ Tally(votes, o) = Tally(votes, p)
        /\ \A r \in Labels : Tally(votes, r) <= Tally(votes, o)

\* The orders in which the keys of a tally can be visited.
Orders(vote_counts) ==
    LET n == Cardinality(DOMAIN vote_counts)
    IN  {order \in [1..n -> DOMAIN vote_counts] :
            \A i \in 1..n, j \in 1..n : order[i] = order[j] => i = j}

\* C18: when two or more labels share the largest vote count, a successful
\* resolve_market returns and stores the stored signal result, at every
\* timestamp and sequence number, and would in every iteration order of the
\* tally.
C18_TieKeepsSignal ==
    [][\A k \in MarketIds :
        (/\ Called("resolve_market", k)
         /\ lastCall'.result = "Ok"
         /\ Tied(storage[k].votes))
        => /\ lastCall'.ret = storage[k].oracle_result
           /\ storage'[k].oracle_result = storage[k].oracle_result
           /\ \A order \in Orders(VoteCounts(storage[k].votes)) :
                 final_result_in_order(storage[k].votes,
                                       storage[k].oracle_result[1],
                                       now, seq, order)
                   = storage[k].oracle_result[1]]_vars

C18_Witness ==
    /\ lastCall = Call("resolve_market", "m1", "Ok", Some("no"))
    /\ Tally(storage["m1"].votes, "yes") = 2
    /\ Tally(storage["m1"].votes, "maybe") = 2
    /\ Tally(storage["m1"].votes, "no") = 1
    /\ random_value(now, seq) < 30

\* The stake recorded for user p, 0 when there is none.
StakeOf(dispute_stakes, p) ==
    IF p \in DOMAIN dispute_stakes THEN dispute_stakes[p] ELSE 0

\* C19: a successful dispute_result by p with stake s changes only
\* dispute_stakes[p], to its previous value (0 if absent) plus s, and possibly
\* end_time; a successful fetch_oracle_result or resolve_market changes only
\* oracle_result; a successful vote changes only the voter's entry of votes
\* and total_staked.
C19_OperationsChangeOnlyTheirFields ==
    [][\A k \in MarketIds :
        /\ (Called("dispute_result", k) /\ lastCall'.result = "Ok")
            => \E p \in Users, s \in LargeDisputeStakes :
                 storage' = [storage EXCEPT
                    ![k].dispute_stakes =
                        MapSet(@, p, StakeOf(storage[k].dispute_stakes, p) + s),
                    ![k].end_time = storage'[k].end_time]
        /\ (/\ lastCall'.op \in {"fetch_oracle_result", "resolve_market"}
             /\ Called(lastCall'.op, k)
             /\ lastCall'.result = "Ok")
            => storage' = [storage EXCEPT
                              ![k].oracle_result = storage'[k].oracle_result]
        /\ (Called("vote", k) /\ lastCall'.result = "Ok")
            => \E p \in Users, o \in Labels :
                 storage' = [storage EXCEPT
                    ![k].votes = MapSet(@, p, o),
                    ![k].total_staked = storage'[k].total_staked]]_vars

\* C20: from the empty store no call writes the key "TokenID", every vote and
\* every dispute_result fails, and every market record keeps empty votes,
\* empty dispute_stakes and total_staked = 0.
C20_NoStakeWithoutToken ==
    [][/\ storage'["TokenID"] = storage["TokenID"]
       /\ \A k \in Keys :
            /\ (lastCall'.op \in {"vote", "dispute_result"} /\ Called(lastCall'.op, k))
                => lastCall'.result /= "Ok"
            /\ storage'[k].type = "market"
                => /\ storage'[k].votes = <<>>
                   /\ storage'[k].dispute_stakes = <<>>
                   /\ storage'[k].total_staked = 0]_vars
====
